---- MODULE Spec2Model ----
(***************************************************************************)
(* Echo-correlation engine of loopscan (src/analyze_real_cmb.py).          *)
(*                                                                         *)
(* analyze_cmb_correlations is modelled as a sequential state machine:     *)
(* one action for the entry of the call (validity filter, size check,      *)
(* seeding and sampling), one action per iteration of the inner loop       *)
(* (one sampled start paired with one candidate separation), and one for   *)
(* the return.  Sample values are integers (exactly representable floats,  *)
(* whose sums, means and products are exact), NonFinite stands for a       *)
(* nan/inf entry.  Correlations are kept as rationals: the sign of r and   *)
(* r*r in lowest terms, den = 0 encodes nan, and ulps counts the units in  *)
(* the last place by which the computed double falls below that fraction.  *)
(***************************************************************************)
EXTENDS Integers, Naturals, Sequences, FiniteSets, TLC

VARIABLES
    cmb_data,         \* argument: the raw array, NonFinite marks nan/inf
    patch_size,       \* argument
    n_samples,        \* argument
    min_correlation,  \* argument of the running call: [n, d, u], n/d less u ulps
    rng,              \* state of the process-wide generator numpy.random
    pc,               \* "idle" | "loop" | "done"
    valid_data,       \* local: cmb_data without its non-finite entries
    sample_starts,    \* local: the sampled starts, in sampling order
    i,                \* local: 1-based index of the current start
    j,                \* local: 1-based index of the current separation
    scored,           \* history: every pair the loop has scored, in order
    matches,          \* local, then result: the match records
    last,             \* history: <<>> or <<[thr, result]>> of the last kept return
    \* read_fits_simple
    stream,           \* the file: [cards, words, tail]
    header_cards,     \* local: the 80-byte records read so far
    rpc,              \* "idle" | "header" | "parse" | "data" | "returned"
    hdr,              \* local: [naxis, naxis1, bitpix], each <<>> (None) or <<int>>
    total_header_size,\* local: byte offset the payload is read from
    fits_out,         \* <<>> or <<[ok, data]>>: the array or None returned
    \* main of analyze_real_cmb.py and analyze_discovery.py
    mpc,              \* position of main
    printed,          \* the result lines main has printed, in order
    results_file,     \* real_cmb_results.json: <<>> (absent) or <<its text>>
    results,          \* <<>> or <<the dictionary load_results returned>>
    stats,            \* <<>> or <<the dictionary statistical_analysis returns>>
    plot_verdict,     \* "" or the result line of the plot summary
    dpc,              \* position of main of analyze_discovery.py
    dprinted          \* the result lines analyze_discovery.py has printed

engineVars == <<cmb_data, patch_size, n_samples, min_correlation, rng, pc,
                valid_data, sample_starts, i, j, scored, matches, last>>

readerVars == <<stream, header_cards, rpc, hdr, total_header_size, fits_out>>

discoveryVars == <<results, stats, plot_verdict, dpc, dprinted>>

reportVars == <<mpc, printed, results_file, discoveryVars>>

vars == <<engineVars, readerVars, reportVars>>

-----------------------------------------------------------------------------
(* Bounds of the model                                                     *)

MaxLen == 6          \* longest raw array
MaxPatch == 3        \* largest patch_size
MaxSamples == 2      \* largest n_samples
RngMod == 4          \* number of states of the modelled generator

(* Program constants                                                       *)

SeedValue == 42      \* np.random.seed(42)
NonFinite == -1      \* marker of a nan/inf entry of the raw array

\* a double is written as the fraction it is nearest to and the number of
\* units in the last place it lies below that fraction
DefaultThreshold == [n |-> 1, d |-> 10, u |-> 0]   \* min_correlation=0.1

Values == {0, 1}     \* the finite sample values
RngStates == 0..(RngMod - 1)

\* min_correlation values tried: -0.1, 0, 0.1, 0.5, 0.9999999999999999, 1
Thresholds ==
    { [n |-> -1, d |-> 10, u |-> 0], [n |-> 0, d |-> 1, u |-> 0],
      DefaultThreshold,
      [n |-> 1, d |-> 2, u |-> 0], [n |-> 1, d |-> 1, u |-> 1],
      [n |-> 1, d |-> 1, u |-> 0] }

-----------------------------------------------------------------------------
(* Arithmetic helpers                                                      *)

Min(a, b) == IF a <= b THEN a ELSE b

Abs(a) == IF a < 0 THEN -a ELSE a

RECURSIVE GCD(_, _)
GCD(a, b) == IF b = 0 THEN a ELSE GCD(b, a % b)

RECURSIVE SumSeq(_)
SumSeq(s) == IF s = <<>> THEN 0 ELSE Head(s) + SumSeq(Tail(s))

Dot(x, y) == SumSeq([k \in 1..Len(x) |-> x[k] * y[k]])

Range(s) == { s[k] : k \in DOMAIN s }

\* a rational n/d (d > 0) in lowest terms
Ratio(n, d) == LET g == GCD(Abs(n), d) IN [n |-> n \div g, d |-> d \div g]

-----------------------------------------------------------------------------
(* numpy.random: seed, permutation, choice(replace=False)                  *)

\* mutant of Seed: the call is missing, the state stays what it was
SeedSkipped(s) == rng

\* np.random.seed(s): the state becomes a function of s alone
Seed(s) == s % RngMod

\* one step of the generator (a full-period additive step stands for the
\* Mersenne twister)
NextState(r) == (r + 3) % RngMod

\* rk_interval(max): a draw in 0..max from state r (after stepping it)
Interval(max, r) == NextState(r) % (max + 1)

Swap(x, a, b) == [x EXCEPT ![a] = x[b], ![b] = x[a]]

\* shuffle of x[1..k]: for k = n down to 2, swap x[k] with x[draw in 1..k]
RECURSIVE Shuffle(_, _, _)
Shuffle(x, k, r) ==
    IF k < 2 THEN [perm |-> x, rng |-> r]
    ELSE Shuffle(Swap(x, k, Interval(k - 1, r) + 1), k - 1, NextState(r))

\* np.arange(a): the population np.random.choice(a, ...) draws from
Population(a) == [k \in 1..a |-> k - 1]

\* np.random.choice(a, size, replace=False) = permutation(a)[:size]
Choice(a, size, r) ==
    LET p == Shuffle(Population(a), a, r)
    IN  [starts |-> SubSeq(p.perm, 1, size), rng |-> p.rng]

-----------------------------------------------------------------------------
(* Pieces of analyze_cmb_correlations                                      *)

IsFinite(v) == v # NonFinite

\* valid_data = cmb_data[np.isfinite(cmb_data)]
ValidData(data) == SelectSeq(data, IsFinite)

\* mutant of Insufficient: <= for <
InsufficientOrEqual(n, p) == n <= p * 2

\* if len(valid_data) < patch_size * 2: return []
Insufficient(n, p) == n < p * 2

\* sample_starts = np.random.choice(max_start, min(n_samples, max_start))
SampleStarts(n, p, k, r) == Choice(n - p, Min(k, n - p), r)

\* mutant of TestSeparations: three quarters as 3 * (N // 4)
TestSeparationsQuarters(n) == << n \div 4, n \div 2, 3 * (n \div 4) >>

\* mutant of TestSeparations: a fourth offset, the whole circle
TestSeparationsWithFull(n) == << n \div 4, n \div 2, (3 * n) \div 4, n >>

\* test_separations, in list order
TestSeparations(n) == << n \div 4, n \div 2, (3 * n) \div 4 >>

\* mutant of Start2: clamp only, no wrap
Start2ClampOnly(start1, separation, n, p) ==
    IF start1 + separation + p > n THEN n - p ELSE start1 + separation

\* mutant of Start2: wrap only, no clamp
Start2WrapOnly(start1, separation, n, p) == (start1 + separation) % n

\* start2 = (start1 + separation) % N, then clamped to N - P
Start2(start1, separation, n, p) ==
    LET w == (start1 + separation) % n
    IN  IF w + p > n THEN n - p ELSE w

\* data[start:start+p]; a Python slice is cut at the end of the array
Patch(data, start, p) == SubSeq(data, start + 1, Min(start + p, Len(data)))

\* mutant of RoundingUlps: the division is carried out without rounding
RoundingExact(m, q) == 0

\* units in the last place by which c / stddev[0] / stddev[1] of np.corrcoef
\* falls below the fraction q = r * r for patches of m samples 0.0 and 1.0:
\* one for m = 2 and two for m = 3, where r is 1/2 or 1 in magnitude, none
\* for m = 4; a value that is no double (r * r = 1/3, 1/9) is its nearest
RoundingUlps(m, q) ==
    IF q \notin {[n |-> 1, d |-> 1], [n |-> 1, d |-> 4]} THEN 0
    ELSE IF m = 2 THEN 1
    ELSE IF m = 3 THEN 2
    ELSE 0

\* mutant of CorrCoef: a zero variance gives 0.0 for nan
CorrCoefZeroFill(x, y) ==
    IF Len(x) # Len(y) THEN [kind |-> "raise", sgn |-> 0, num |-> 0, den |-> 0, ulps |-> 0]
    ELSE LET m   == Len(x)
             sxy == m * Dot(x, y) - SumSeq(x) * SumSeq(y)
             sxx == m * Dot(x, x) - SumSeq(x) * SumSeq(x)
             syy == m * Dot(y, y) - SumSeq(y) * SumSeq(y)
         IN  IF sxx * syy = 0
             THEN [kind |-> "value", sgn |-> 0, num |-> 0, den |-> 1, ulps |-> 0]
             ELSE LET q == Ratio(sxy * sxy, sxx * syy)
                  IN  [kind |-> "value",
                       sgn |-> IF sxy > 0 THEN 1 ELSE IF sxy < 0 THEN -1 ELSE 0,
                       num |-> q.n, den |-> q.d, ulps |-> RoundingUlps(m, q)]

\* np.corrcoef(x, y)[0, 1]: "raise" for unequal lengths, nan (den = 0) when
\* a variance is zero, else sign and square of r in lowest terms
CorrCoef(x, y) ==
    IF Len(x) # Len(y) THEN [kind |-> "raise", sgn |-> 0, num |-> 0, den |-> 0, ulps |-> 0]
    ELSE LET m   == Len(x)
             sxy == m * Dot(x, y) - SumSeq(x) * SumSeq(y)
             sxx == m * Dot(x, x) - SumSeq(x) * SumSeq(x)
             syy == m * Dot(y, y) - SumSeq(y) * SumSeq(y)
         IN  IF sxx * syy = 0
             THEN [kind |-> "value", sgn |-> 0, num |-> 0, den |-> 0, ulps |-> 0]
             ELSE LET q == Ratio(sxy * sxy, sxx * syy)
                  IN  [kind |-> "value",
                       sgn |-> IF sxy > 0 THEN 1 ELSE IF sxy < 0 THEN -1 ELSE 0,
                       num |-> q.n, den |-> q.d, ulps |-> RoundingUlps(m, q)]

\* np.isnan(correlation)
IsNan(c) == c.den = 0

\* mutant of AbsGE: the comparison is turned round
AbsLE(c, t) ==
    /\ c.den # 0
    /\ \/ c.num * t.d * t.d < t.n * t.n * c.den
       \/ c.num * t.d * t.d = t.n * t.n * c.den /\ c.ulps >= t.u

\* mutant of AbsGE: the bound is exclusive
AbsGT(c, t) ==
    /\ c.den # 0
    /\ \/ t.n < 0
       \/ c.num * t.d * t.d > t.n * t.n * c.den
       \/ c.num * t.d * t.d = t.n * t.n * c.den /\ c.ulps < t.u

\* abs(correlation) >= min_correlation (False for nan)
AbsGE(c, t) ==
    /\ c.den # 0
    /\ \/ t.n <= 0
       \/ c.num * t.d * t.d > t.n * t.n * c.den
       \/ c.num * t.d * t.d = t.n * t.n * c.den /\ c.ulps <= t.u

\* not np.isnan(correlation) and abs(correlation) >= min_correlation
Passes(c, t) == c.kind = "value" /\ ~IsNan(c) /\ AbsGE(c, t)

\* mutant of MatchRecord: the separation is taken as location2 - location1
MatchRecordSigned(start1, start2, c, separation, n, p) ==
    [ location1 |-> start1,
      location2 |-> start2,
      correlation |-> [sgn |-> c.sgn, num |-> c.num, den |-> c.den,
                       ulps |-> c.ulps],
      separation_pixels |-> start2 - start1,
      separation_degrees |-> Ratio(360 * (start2 - start1), n),
      patch_size |-> p ]

\* the dictionary appended to matches
MatchRecord(start1, start2, c, separation, n, p) ==
    [ location1 |-> start1,
      location2 |-> start2,
      correlation |-> [sgn |-> c.sgn, num |-> c.num, den |-> c.den,
                       ulps |-> c.ulps],
      separation_pixels |-> separation,
      separation_degrees |-> Ratio(360 * separation, n),
      patch_size |-> p ]

-----------------------------------------------------------------------------
(* Inputs                                                                  *)

RECURSIVE SeqsUpTo(_, _)
SeqsUpTo(S, n) ==
    IF n = 0 THEN { <<>> }
    ELSE LET shorter == SeqsUpTo(S, n - 1)
         IN  shorter \cup { Append(s, v) : s \in shorter, v \in S }

NonFiniteCount(data) == Len(data) - Len(ValidData(data))

\* raw arrays: at most one entry is non-finite
Arrays ==
    { a \in SeqsUpTo(Values \cup {NonFinite}, MaxLen) :
        NonFiniteCount(a) <= 1 }

-----------------------------------------------------------------------------
(* The state machine                                                       *)

\* nothing is being read
ReaderIdle ==
    /\ stream = [cards |-> <<>>, words |-> <<>>, tail |-> 0]
    /\ header_cards = <<>>
    /\ rpc = "idle"
    /\ hdr = [naxis |-> <<>>, naxis1 |-> <<>>, bitpix |-> <<>>]
    /\ total_header_size = 0
    /\ fits_out = <<>>

\* no main is running and no results file exists
ReportIdle ==
    /\ mpc = "idle"
    /\ printed = <<>>
    /\ results_file = <<>>
    /\ results = <<>>
    /\ stats = <<>>
    /\ plot_verdict = ""
    /\ dpc = "idle"
    /\ dprinted = <<>>

Init ==
    /\ ReaderIdle
    /\ ReportIdle
    /\ cmb_data \in Arrays
    /\ patch_size \in 1..MaxPatch
    /\ n_samples \in 0..MaxSamples
    /\ min_correlation = DefaultThreshold
    /\ rng \in RngStates
    /\ pc = "idle"
    /\ valid_data = <<>>
    /\ sample_starts = <<>>
    /\ i = 1
    /\ j = 1
    /\ scored = <<>>
    /\ matches = <<>>
    /\ last = <<>>

\* other code of the process draws from the global generator between calls
\* (np.random.randn in the test scripts)
Perturb ==
    /\ pc = "idle"
    /\ \E r \in RngStates : rng' = r
    /\ rng' # rng
    /\ UNCHANGED <<cmb_data, patch_size, n_samples, min_correlation, pc,
                   valid_data, sample_starts, i, j, scored, matches, last>>
    /\ UNCHANGED <<readerVars, reportVars>>

\* entry with too little valid data: return [] before seeding
CallInsufficient ==
    /\ pc = "idle"
    /\ \E t \in Thresholds : min_correlation' = t
    /\ valid_data' = ValidData(cmb_data)
    /\ Insufficient(Len(valid_data'), patch_size)
    /\ pc' = "done"
    /\ matches' = <<>>
    /\ sample_starts' = <<>>
    /\ scored' = <<>>
    /\ i' = 1
    /\ j' = 1
    /\ UNCHANGED <<cmb_data, patch_size, n_samples, rng, last>>
    /\ UNCHANGED <<readerVars, reportVars>>

\* entry with enough valid data: seed, sample, start the loop
CallSample ==
    /\ pc = "idle"
    /\ \E t \in Thresholds : min_correlation' = t
    /\ valid_data' = ValidData(cmb_data)
    /\ ~Insufficient(Len(valid_data'), patch_size)
    /\ LET c == SampleStarts(Len(valid_data'), patch_size, n_samples,
                             Seed(SeedValue))
       IN  /\ sample_starts' = c.starts
           /\ rng' = c.rng
           /\ pc' = IF c.starts = <<>> THEN "done" ELSE "loop"
    /\ matches' = <<>>
    /\ scored' = <<>>
    /\ i' = 1
    /\ j' = 1
    /\ UNCHANGED <<cmb_data, patch_size, n_samples, last>>
    /\ UNCHANGED <<readerVars, reportVars>>

\* one iteration of the inner loop: score (sample_starts[i], separation j)
Score ==
    /\ pc = "loop"
    /\ LET n      == Len(valid_data)
           start1 == sample_starts[i]
           sep    == TestSeparations(n)[j]
           start2 == Start2(start1, sep, n, patch_size)
           patch1 == Patch(valid_data, start1, patch_size)
           patch2 == Patch(valid_data, start2, patch_size)
           c      == CorrCoef(patch1, patch2)
           rec    == IF Passes(c, min_correlation)
                     THEN << MatchRecord(start1, start2, c, sep, n,
                                         patch_size) >>
                     ELSE << >>
       IN  /\ scored' = Append(scored,
                  [start1 |-> start1, k |-> j, separation |-> sep,
                   start2 |-> start2, patch1 |-> patch1, patch2 |-> patch2,
                   corr |-> c, rec |-> rec])
           /\ matches' = matches \o rec
           /\ IF j < Len(TestSeparations(n))
              THEN /\ j' = j + 1
                   /\ i' = i
                   /\ pc' = "loop"
              ELSE /\ j' = 1
                   /\ i' = i + 1
                   /\ pc' = IF i < Len(sample_starts) THEN "loop" ELSE "done"
    /\ UNCHANGED <<cmb_data, patch_size, n_samples, min_correlation, rng,
                   valid_data, sample_starts, last>>
    /\ UNCHANGED <<readerVars, reportVars>>

\* return matches; the locals die
Return ==
    /\ pc = "done"
    /\ pc' = "idle"
    /\ valid_data' = <<>>
    /\ sample_starts' = <<>>
    /\ scored' = <<>>
    /\ matches' = <<>>
    /\ i' = 1
    /\ j' = 1
    /\ UNCHANGED <<cmb_data, patch_size, n_samples, min_correlation, rng,
                   last>>
    /\ UNCHANGED <<readerVars, reportVars>>

\* return matches to a caller that keeps the list and its threshold, to
\* compare them with those of its next call
ReturnKept ==
    /\ pc = "done"
    /\ last' = << [thr |-> min_correlation, result |-> matches] >>
    /\ pc' = "idle"
    /\ valid_data' = <<>>
    /\ sample_starts' = <<>>
    /\ scored' = <<>>
    /\ matches' = <<>>
    /\ i' = 1
    /\ j' = 1
    /\ UNCHANGED <<cmb_data, patch_size, n_samples, min_correlation, rng>>
    /\ UNCHANGED <<readerVars, reportVars>>

Next ==
    \/ Perturb
    \/ CallInsufficient
    \/ CallSample
    \/ Score
    \/ Return

\* calls of analyze_cmb_correlations on any raw array
Spec == Init /\ [][Next]_vars

\* repeated calls on an array without non-finite entries, each result kept
\* for comparison with the next
InitRepeat ==
    /\ Init
    /\ NonFiniteCount(cmb_data) = 0

NextRepeat ==
    \/ Perturb
    \/ CallInsufficient
    \/ CallSample
    \/ Score
    \/ ReturnKept

SpecRepeat == InitRepeat /\ [][NextRepeat]_vars

-----------------------------------------------------------------------------
(* Vocabulary of the properties                                            *)

N == Len(valid_data)
P == patch_size
K == n_samples

\* the running call got past the size check and sampled
Sampled == pc \in {"loop", "done"} /\ ~(N < 2 * P)

\* the running call returned at the size check
Aborted == pc = "done" /\ N < 2 * P

ThrLess(t1, t2) ==
    \/ t1.n * t2.d < t2.n * t1.d
    \/ t1.n * t2.d = t2.n * t1.d /\ t1.u > t2.u

IsConstant(x) == \A a, b \in DOMAIN x : x[a] = x[b]

Distinct(s) == \A a, b \in DOMAIN s : a # b => s[a] # s[b]

-----------------------------------------------------------------------------
(* C1: two calls with the same array, patch size, sample count and         *)
(* threshold return the same ordered match list, whatever the generator    *)
(* state before each call: when a call is about to return and the last     *)
(* return was for the same threshold, its list equals the last one.        *)
C1_Determinism ==
    (pc = "done" /\ last # <<>> /\ last[1].thr = min_correlation)
        => matches = last[1].result

\* a second call with the same threshold about to return two records or more
C1_Witness ==
    /\ pc = "done"
    /\ last # <<>>
    /\ last[1].thr = min_correlation
    /\ Len(sample_starts) >= 2
    /\ Len(matches) >= 2
    /\ matches[1].location1 # matches[Len(matches)].location1

(* C2: for thresholds t1 < t2 the list returned with t2 is a subset of the *)
(* list returned with t1, and is no longer: checked on each call about to  *)
(* return against the last return, in both orders.                         *)
C2_ThresholdMonotone ==
    (pc = "done" /\ last # <<>>) =>
        /\ ThrLess(last[1].thr, min_correlation) =>
              /\ Range(matches) \subseteq Range(last[1].result)
              /\ Len(matches) <= Len(last[1].result)
        /\ ThrLess(min_correlation, last[1].thr) =>
              /\ Range(last[1].result) \subseteq Range(matches)
              /\ Len(last[1].result) <= Len(matches)

\* a call with a higher threshold returns a non-empty, strictly shorter list
C2_Witness ==
    /\ pc = "done"
    /\ last # <<>>
    /\ ThrLess(last[1].thr, min_correlation)
    /\ matches # <<>>
    /\ Len(matches) < Len(last[1].result)

(* C3, as claimed: whenever start1 + offset exceeds N, or the patch placed *)
(* at start1 + offset would run past N, the second start is N - P and is   *)
(* never a wrapped low index.                                              *)
C3_ClampNeverWrap ==
    \A q \in DOMAIN scored :
        LET e == scored[q]
        IN  (e.start1 + e.separation > N \/ e.start1 + e.separation + P > N)
                => e.start2 = N - P

(* C3, amended: the second start is N - P when start1 + offset is below N  *)
(* and the patch there would run past N; when start1 + offset is N or      *)
(* more, the second start is the wrapped index start1 + offset - N, which  *)
(* is below start1 and is not clamped; otherwise it is start1 + offset.    *)
C3_ClampOrWrap ==
    \A q \in DOMAIN scored :
        LET e == scored[q]
            t == e.start1 + e.separation
        IN  /\ (t < N /\ t + P > N) => e.start2 = N - P
            /\ t >= N => (e.start2 = t - N /\ e.start2 < e.start1
                          /\ e.start2 + P <= N)
            /\ t + P <= N => e.start2 = t

\* one call scored a clamped pair and a wrapped pair
C3_Witness ==
    /\ \E q \in DOMAIN scored :
          /\ scored[q].start1 + scored[q].separation < N
          /\ scored[q].start1 + scored[q].separation + P > N
          /\ scored[q].start2 = N - P
    /\ \E q \in DOMAIN scored :
          /\ scored[q].start1 + scored[q].separation >= N
          /\ scored[q].start2 < scored[q].start1

(* C4: both patches of every scored pair are full windows of P elements    *)
(* inside the filtered array: 0 <= start and start + P <= N for both       *)
(* starts, and each patch is the P elements from its start.                *)
C4_PatchesInside ==
    \A q \in DOMAIN scored :
        LET e == scored[q]
        IN  /\ 0 <= e.start1 /\ e.start1 + P <= N
            /\ 0 <= e.start2 /\ e.start2 + P <= N
            /\ Len(e.patch1) = P /\ Len(e.patch2) = P
            /\ \A k \in 1..P : /\ e.patch1[k] = valid_data[e.start1 + k]
                               /\ e.patch2[k] = valid_data[e.start2 + k]

\* a pair whose unclamped second patch would have been cut short was scored
\* on full windows, with patch_size 2 or more
C4_Witness ==
    /\ P >= 2
    /\ \E q \in DOMAIN scored :
          /\ ((scored[q].start1 + scored[q].separation) % N) + P > N
          /\ Len(scored[q].patch2) = P
          /\ scored[q].start2 + P = N

(* C5, as claimed: the sampled starts are pairwise distinct, each lies in  *)
(* the closed range [0, N-P], and every index of that range can be         *)
(* returned, N-P included: whenever a start is asked for, some state of    *)
(* the generator makes the sampler return N-P.                             *)
C5_WholeClosedRange ==
    Sampled =>
        /\ Distinct(sample_starts)
        /\ \A q \in DOMAIN sample_starts : sample_starts[q] \in 0..(N - P)
        /\ K >= 1 =>
              \E r \in RngStates : (N - P) \in Range(SampleStarts(N, P, K, r).starts)

(* C6, as claimed: the sampler returns exactly K starts when K is at most  *)
(* the number of valid starts, N-P+1, and N-P+1 starts otherwise.          *)
C6_SampleCount ==
    Sampled =>
        Len(sample_starts) = IF K <= N - P + 1 THEN K ELSE N - P + 1

(* C7: every match record has 0 <= separation_pixels < N and               *)
(* 0 <= separation_degrees < 360.                                          *)
C7_SeparationBounds ==
    \A q \in DOMAIN matches :
        LET m == matches[q]
        IN  /\ 0 <= m.separation_pixels /\ m.separation_pixels < N
            /\ m.separation_degrees.d > 0
            /\ 0 <= m.separation_degrees.n
            /\ m.separation_degrees.n < 360 * m.separation_degrees.d

\* a record whose second patch was wrapped below its first, at the largest
\* separation
C7_Witness ==
    \E q \in DOMAIN matches :
        /\ matches[q].location2 < matches[q].location1
        /\ matches[q].separation_pixels = (3 * N) \div 4
        /\ matches[q].separation_pixels > N \div 2

(* C8, as claimed: the k-th candidate offset is floor(k*N/4), k = 1, 2, 3, *)
(* and the angle recorded for it is 90*k degrees, for every accepted N.    *)
C8_RightAngles ==
    \A q \in DOMAIN scored :
        LET e == scored[q]
        IN  /\ e.separation = (e.k * N) \div 4
            /\ e.rec # <<>> =>
                  e.rec[1].separation_degrees = [n |-> 90 * e.k, d |-> 1]

(* C8, amended: the k-th candidate offset is floor(k*N/4) and the angle    *)
(* recorded for it is 360*floor(k*N/4)/N degrees, which is 90*k exactly    *)
(* when k*N is a multiple of 4 and otherwise lies below 90*k by less than  *)
(* 360/N degrees.                                                          *)
C8_FlooredAngles ==
    \A q \in DOMAIN scored :
        LET e == scored[q]
        IN  /\ e.separation = (e.k * N) \div 4
            /\ e.rec # <<>> =>
                  LET a == e.rec[1].separation_degrees
                  IN  /\ e.rec[1].separation_pixels = e.separation
                      /\ a.n * N = 360 * e.separation * a.d
                      /\ (a = [n |-> 90 * e.k, d |-> 1]) <=> ((e.k * N) % 4 = 0)
                      /\ a.n <= 90 * e.k * a.d
                      /\ (90 * e.k * a.d - a.n) * N < 360 * a.d

\* a three-quarter record on an array whose length is no multiple of 4: its
\* angle is not 270 degrees
C8_Witness ==
    /\ N % 4 # 0
    /\ \E q \in DOMAIN scored :
          /\ scored[q].k = 3
          /\ scored[q].rec # <<>>
          /\ scored[q].rec[1].separation_degrees # [n |-> 270, d |-> 1]
          /\ scored[q].separation # 3 * (N \div 4)

C10_InsufficientData ==
    pc = "done" =>
        /\ N = Len(ValidData(cmb_data))
        /\ N < 2 * P =>
              (matches = <<>> /\ sample_starts = <<>> /\ scored = <<>>)
        /\ N >= 2 * P =>
              /\ K >= 1 => sample_starts # <<>>
              /\ Len(scored) = 3 * Len(sample_starts)

\* a raw array of 2*P entries or more, too short once its non-finite entry
\* is dropped, returns the empty list
C10_Witness ==
    /\ Aborted
    /\ Len(cmb_data) >= 2 * P
    /\ N = 2 * P - 1
    /\ K >= 1
    /\ matches = <<>>

-----------------------------------------------------------------------------
(* read_fits_simple: the file                                              *)

MaxWords == 3         \* most 4-byte words of payload in a file
MaxEofReads == 2      \* reads at end of file followed before memory runs out

CardBytes == 80       \* f.read(80)
BlockBytes == 2880    \* header blocks
WordBytes == 4
CardsPerBlock == BlockBytes \div CardBytes
WordsPerCard == CardBytes \div WordBytes
TextWord == 2         \* the four bytes of a piece of header text, as a word

WordValues == {0, 1}  \* bit patterns of a payload word

Digits == {"0", "1", "2", "3", "4", "5", "6", "7", "8", "9"}

\* keys whose value the header loop converts with int()
HeaderKeys == {"NAXIS", "NAXIS1", "BITPIX"}

Card(key, text) == [key |-> key, text |-> text]

\* what f.read(80) gives at end of file, and a short read of payload bytes
EmptyCard == Card("", <<>>)
DataCard == Card("DATA", <<>>)

Repeat(c, n) == [k \in 1..n |-> c]

\* blank records up to the next block boundary, as a FITS writer pads
PadToBlock(cards) ==
    cards \o Repeat(Card("BLANK", <<>>),
                    (CardsPerBlock - (Len(cards) % CardsPerBlock)) % CardsPerBlock)

OptCard(key, opt) == IF opt = <<>> THEN <<>> ELSE <<Card(key, opt[1])>>

\* a header: type, axis count and axis length records where given, f
\* comment records, and the terminator where given
Header(bp, na, n1, f, end) ==
    OptCard("BITPIX", bp) \o OptCard("NAXIS", na) \o OptCard("NAXIS1", n1)
        \o Repeat(Card("COMMENT", <<>>), f)
        \o (IF end THEN <<Card("END", <<>>)>> ELSE <<>>)

File(cards, words, tail) == [cards |-> cards, words |-> words, tail |-> tail]

Opt(S) == {<<>>} \cup {<<t>> : t \in S}

\* value fields as written in files
BitpixTexts ==
    { <<" ", "-", "3", "2">>, <<"-", "6", "4", " ", "/", " ", "f">>,
      <<" ", "3", "2", " ">>, <<"1", "6">>, <<"-", "3", "2", ".", "0">>,
      <<>> }

Naxis1Texts ==
    { <<" ", "0">>, <<"1">>, <<" ", "2", " ", "/", "n">>, <<"+", "3">>,
      <<"-", "1">>, <<"2", "e", "0">>, <<" ", "/", "2">> }

NaxisTexts == { <<"1">>, <<"1", " ", "2">>, <<"x">> }

Payloads == UNION { [1..n -> WordValues] : n \in 0..MaxWords }

Tails == {0, 2}       \* stray bytes after the last whole word

\* the files read: padded headers of every type and length with every
\* payload, headers that end near a block boundary, unpadded headers, bad
\* axis counts, and files without a terminator
Streams ==
    { File(PadToBlock(Header(bp, <<>>, n1, 0, TRUE)), w, t) :
          bp \in Opt(BitpixTexts), n1 \in Opt(Naxis1Texts),
          w \in Payloads, t \in Tails }
    \cup
    { File(PadToBlock(Header(<<<<"-", "6", "4">>>>, na, <<<<"1">>>>, f, TRUE)), w, 0) :
          na \in Opt(NaxisTexts),
          f \in {0, CardsPerBlock - 4, CardsPerBlock - 3, CardsPerBlock - 2},
          w \in Payloads }
    \cup
    { File(Header(<<>>, <<>>, n1, f, TRUE), w, 0) :
          n1 \in Opt({<<"1">>}), f \in {0, CardsPerBlock - 1}, w \in Payloads }
    \cup
    { File(Header(bp, <<>>, n1, f, FALSE), w, t) :
          bp \in Opt({<<"3", "2">>}), n1 \in Opt({<<"1">>, <<"x">>}),
          f \in {0, 1}, w \in Payloads, t \in Tails }

PayloadBytes(file) == WordBytes * Len(file.words) + file.tail

\* the k-th 80-byte read of the file from its start
RecordAt(file, k) ==
    IF k <= Len(file.cards) THEN file.cards[k]
    ELSE IF CardBytes * (k - Len(file.cards) - 1) < PayloadBytes(file) THEN DataCard
    ELSE EmptyCard

\* the whole words and the stray bytes from a byte offset on a record
\* boundary to the end of the file
BytesFrom(file, offset) ==
    LET oc == offset \div CardBytes
        nc == Len(file.cards)
    IN  IF oc < nc
        THEN [words |-> Repeat(TextWord, WordsPerCard * (nc - oc)) \o file.words,
              tail |-> file.tail]
        ELSE IF WordsPerCard * (oc - nc) <= Len(file.words)
        THEN [words |-> SubSeq(file.words, WordsPerCard * (oc - nc) + 1,
                               Len(file.words)),
              tail |-> file.tail]
        ELSE [words |-> <<>>, tail |-> 0]

-----------------------------------------------------------------------------
(* read_fits_simple: the conversions                                       *)

FirstIn(S) == CHOOSE k \in S : \A m \in S : k <= m

\* card.split('=')[1].split('/')[0] on the text after the key's '='
ValueField(text) ==
    LET cuts == {k \in 1..Len(text) : text[k] \in {"/", "="}}
    IN  IF cuts = {} THEN text ELSE SubSeq(text, 1, FirstIn(cuts) - 1)

RECURSIVE Strip(_)
Strip(t) ==
    IF t = <<>> THEN t
    ELSE IF Head(t) = " " THEN Strip(Tail(t))
    ELSE IF t[Len(t)] = " " THEN Strip(SubSeq(t, 1, Len(t) - 1))
    ELSE t

DigitValue(c) ==
    CASE c = "0" -> 0 [] c = "1" -> 1 [] c = "2" -> 2 [] c = "3" -> 3
      [] c = "4" -> 4 [] c = "5" -> 5 [] c = "6" -> 6 [] c = "7" -> 7
      [] c = "8" -> 8 [] c = "9" -> 9

RECURSIVE DigitsValue(_)
DigitsValue(d) ==
    IF d = <<>> THEN 0
    ELSE 10 * DigitsValue(SubSeq(d, 1, Len(d) - 1)) + DigitValue(d[Len(d)])

\* int() of a stripped literal: <<v>>, or <<>> for ValueError
IntOf(v) ==
    LET signed == v # <<>> /\ v[1] \in {"+", "-"}
        d == IF signed THEN Tail(v) ELSE v
    IN  IF d = <<>> \/ \E k \in 1..Len(d) : d[k] \notin Digits THEN <<>>
        ELSE IF signed /\ v[1] = "-" THEN <<0 - DigitsValue(d)>>
        ELSE <<DigitsValue(d)>>

\* a conversion that reads every unreadable value as 0
ParseIntLenient(text) ==
    LET v == IntOf(Strip(ValueField(text)))
    IN  IF v = <<>> THEN <<0>> ELSE v

\* int(card.split('=')[1].split('/')[0].strip())
ParseInt(text) == IntOf(Strip(ValueField(text)))

NoFields == [err |-> FALSE, naxis |-> <<>>, naxis1 |-> <<>>, bitpix |-> <<>>]

FieldOf(key) ==
    CASE key = "NAXIS" -> "naxis" [] key = "NAXIS1" -> "naxis1"
      [] key = "BITPIX" -> "bitpix"

\* the loop over header_cards: the last record of a key wins, and the first
\* value int() rejects ends the loop with ValueError
RECURSIVE ParseCards(_, _)
ParseCards(cards, acc) ==
    IF cards = <<>> \/ acc.err THEN acc
    ELSE LET c == Head(cards)
             v == ParseInt(c.text)
         IN  ParseCards(Tail(cards),
                 IF c.key \notin HeaderKeys THEN acc
                 ELSE IF v = <<>> THEN [acc EXCEPT !.err = TRUE]
                 ELSE [acc EXCEPT ![FieldOf(c.key)] = v])

\* header rounded down to whole blocks
TotalHeaderSizeFloor(h) == ((h * CardBytes) \div BlockBytes) * BlockBytes

\* header_size, header_blocks, total_header_size
TotalHeaderSize(h) ==
    (((h * CardBytes) + (BlockBytes - 1)) \div BlockBytes) * BlockBytes

\* a type table that reads 64-bit floats whatever the code
DTypeAlwaysF8(bitpix) == ">f8"

\* the dtype chain; bitpix is <<>> when no BITPIX record was read
DType(bitpix) ==
    IF bitpix = <<-32>> THEN ">f4"
    ELSE IF bitpix = <<-64>> THEN ">f8"
    ELSE IF bitpix = <<32>> THEN ">i4"
    ELSE ">f4"

ItemSize(dtype) == IF dtype = ">f8" THEN 8 ELSE 4

\* np.frombuffer: [err, data]; a buffer that is not a whole number of
\* elements is rejected, an 8-byte element is two words
FromBuffer(bytes, dtype) ==
    LET nbytes == WordBytes * Len(bytes.words) + bytes.tail
        n == nbytes \div ItemSize(dtype)
    IN  IF nbytes % ItemSize(dtype) # 0 THEN [err |-> TRUE, data |-> <<>>]
        ELSE IF dtype = ">f8"
        THEN [err |-> FALSE,
              data |-> [k \in 1..n |->
                           2 * bytes.words[2 * k - 1] + bytes.words[2 * k]]]
        ELSE [err |-> FALSE, data |-> [k \in 1..n |-> bytes.words[k]]]

\* data[:m]
SliceTo(data, m) ==
    IF m >= 0 THEN SubSeq(data, 1, Min(m, Len(data)))
    ELSE SubSeq(data, 1, Len(data) + m)

\* truncation whenever a length was declared
TruncateDeclared(data, naxis1) ==
    IF naxis1 # <<>> THEN SliceTo(data, naxis1[1]) ELSE data

\* if naxis1: data = data[:naxis1]
Truncate(data, naxis1) ==
    IF naxis1 # <<>> /\ naxis1[1] # 0 THEN SliceTo(data, naxis1[1]) ELSE data

Failure == [ok |-> FALSE, dtype |-> "", data |-> <<>>]

Array(dtype, data) == [ok |-> TRUE, dtype |-> dtype, data |-> data]

\* reads at end of file so far
EofReads == Len(SelectSeq(header_cards, LAMBDA c : c = EmptyCard))

-----------------------------------------------------------------------------
(* read_fits_simple and the start of main                                  *)

\* no analysis has been called
EngineIdle ==
    /\ cmb_data = <<>>
    /\ patch_size = 1
    /\ n_samples = 0
    /\ min_correlation = DefaultThreshold
    /\ rng = 0
    /\ pc = "idle"
    /\ valid_data = <<>>
    /\ sample_starts = <<>>
    /\ i = 1
    /\ j = 1
    /\ scored = <<>>
    /\ matches = <<>>
    /\ last = <<>>

InitFits ==
    /\ EngineIdle
    /\ ReportIdle
    /\ stream \in Streams
    /\ header_cards = <<>>
    /\ rpc = "idle"
    /\ hdr = [naxis |-> <<>>, naxis1 |-> <<>>, bitpix |-> <<>>]
    /\ total_header_size = 0
    /\ fits_out = <<>>

\* main calls read_fits_simple(cmb_file)
MainReadFits ==
    /\ mpc = "idle"
    /\ mpc' = "reading"
    /\ rpc' = "header"
    /\ UNCHANGED <<engineVars, stream, header_cards, hdr, total_header_size,
                   fits_out, printed, results_file, discoveryVars>>

\* one turn of the header loop
ReadCard ==
    /\ rpc = "header"
    /\ EofReads < MaxEofReads
    /\ LET card == RecordAt(stream, Len(header_cards) + 1)
       IN  /\ header_cards' = Append(header_cards, card)
           /\ rpc' = IF card.key = "END" THEN "parse" ELSE "header"
    /\ UNCHANGED <<engineVars, reportVars, stream, hdr, total_header_size, fits_out>>

\* the list of empty records outgrows memory: MemoryError is caught by the
\* handler, or the process is killed first
ReadExhausted ==
    /\ rpc = "header"
    /\ EofReads = MaxEofReads
    /\ \/ rpc' = "returned" /\ fits_out' = <<Failure>>
       \/ rpc' = "killed" /\ fits_out' = fits_out
    /\ UNCHANGED <<engineVars, reportVars, stream, header_cards, hdr,
                   total_header_size>>

\* header size, then the loop over the records
ParseHeader ==
    /\ rpc = "parse"
    /\ total_header_size' = TotalHeaderSize(Len(header_cards))
    /\ LET f == ParseCards(header_cards, NoFields)
       IN  /\ hdr' = [naxis |-> f.naxis, naxis1 |-> f.naxis1, bitpix |-> f.bitpix]
           /\ IF f.err
              THEN rpc' = "returned" /\ fits_out' = <<Failure>>
              ELSE rpc' = "data" /\ fits_out' = fits_out
    /\ UNCHANGED <<engineVars, reportVars, stream, header_cards>>

\* seek, read the rest, convert, truncate, print the range, return
ReadData ==
    /\ rpc = "data"
    /\ LET dtype == DType(hdr.bitpix)
           buf == FromBuffer(BytesFrom(stream, total_header_size), dtype)
           data == Truncate(buf.data, hdr.naxis1)
       IN  fits_out' = IF buf.err \/ data = <<>> THEN <<Failure>>
                       ELSE <<Array(dtype, data)>>
    /\ rpc' = "returned"
    /\ UNCHANGED <<engineVars, reportVars, stream, header_cards, hdr,
                   total_header_size>>

\* if cmb_data is None: return
MainReadFailed ==
    /\ mpc = "reading"
    /\ rpc = "returned"
    /\ ~fits_out[1].ok
    /\ printed' = Append(printed, "Failed to read CMB data")
    /\ mpc' = "returned"
    /\ UNCHANGED <<engineVars, readerVars, results_file, discoveryVars>>

\* the array goes on to analyze_cmb_correlations
MainReadOk ==
    /\ mpc = "reading"
    /\ rpc = "returned"
    /\ fits_out[1].ok
    /\ mpc' = "analysis"
    /\ cmb_data' = fits_out[1].data
    /\ UNCHANGED <<patch_size, n_samples, min_correlation, rng, pc, valid_data,
                   sample_starts, i, j, scored, matches, last>>
    /\ UNCHANGED <<readerVars, printed, results_file, discoveryVars>>


-----------------------------------------------------------------------------
(* Vocabulary of the reader properties                                     *)

HasTerminator(file) == \E k \in 1..Len(file.cards) : file.cards[k].key = "END"

Returned == rpc = "returned"

ReturnedNone == Returned /\ fits_out = <<Failure>>

ReturnedArray == Returned /\ fits_out # <<>> /\ fits_out[1].ok

-----------------------------------------------------------------------------
(* C11: when no record of the stream begins with END, read_fits_simple     *)
(* does not keep reading past the end of the stream: it makes at most one  *)
(* read that finds the stream exhausted, and it ends by returning the      *)
(* failure outcome, never by being killed.                                 *)
C11_StopsAtEndOfStream ==
    ~HasTerminator(stream) =>
        /\ EofReads <= 1
        /\ rpc # "killed"
        /\ Returned => fits_out = <<Failure>>

-----------------------------------------------------------------------------
(* C12: a header whose axis count, first-axis length or bits-per-element   *)
(* value is not an integer, or a file with fewer payload bytes after the   *)
(* header than one element of the resolved type, makes read_fits_simple    *)
(* return the failure outcome; main then returns without calling the       *)
(* analysis and without writing a report.                                  *)

\* the value fields of the files that are integers, and those that say -64
IntegerTexts ==
    { <<" ", "-", "3", "2">>, <<"-", "6", "4", " ", "/", " ", "f">>,
      <<" ", "3", "2", " ">>, <<"1", "6">>, <<" ", "0">>, <<"1">>,
      <<" ", "2", " ", "/", "n">>, <<"+", "3">>, <<"-", "1">>,
      <<"-", "6", "4">>, <<"3", "2">> }

DoubleTexts == { <<"-", "6", "4", " ", "/", " ", "f">>, <<"-", "6", "4">> }

\* position of the terminator
EndIndex(file) == FirstIn({k \in 1..Len(file.cards) : file.cards[k].key = "END"})

\* a record of the header gives one of the three keys a value that is not
\* an integer
BadValue(file) ==
    \E k \in 1..EndIndex(file) :
        /\ file.cards[k].key \in {"NAXIS", "NAXIS1", "BITPIX"}
        /\ file.cards[k].text \notin IntegerTexts

\* the smallest multiple of 2880 that is at least b
BlockCeiling(b) ==
    CHOOSE o \in 0..(b + 2880) : o % 2880 = 0 /\ o >= b /\ o - b < 2880

\* bytes of the file after the header blocks
BytesAfterHeader(file) ==
    LET size == 80 * Len(file.cards) + 4 * Len(file.words) + file.tail
        offset == BlockCeiling(80 * EndIndex(file))
    IN  IF size > offset THEN size - offset ELSE 0

\* bytes of one element of the type the header declares
ElementBytes(file) ==
    IF \E k \in 1..EndIndex(file) :
           file.cards[k].key = "BITPIX" /\ file.cards[k].text \in DoubleTexts
    THEN 8 ELSE 4

ShortPayload(file) == BytesAfterHeader(file) < ElementBytes(file)

C12_UnreadableFileStopsMain ==
    /\ (Returned /\ HasTerminator(stream)
            /\ (BadValue(stream) \/ ShortPayload(stream)))
           => fits_out = <<Failure>>
    /\ (ReturnedNone /\ mpc # "reading") => mpc = "returned"
    /\ mpc = "returned" =>
           /\ ReturnedNone
           /\ cmb_data = <<>> /\ pc = "idle" /\ scored = <<>>
           /\ results_file = <<>>

\* main has stopped on a file with a full payload and a value int() rejects
C12_Witness ==
    /\ mpc = "returned"
    /\ HasTerminator(stream)
    /\ BadValue(stream)
    /\ ~ShortPayload(stream)
    /\ Len(stream.words) = MaxWords

-----------------------------------------------------------------------------
(* C13: for every declared first-axis length M, M = 0 included, and a      *)
(* payload holding at least M elements of the declared type, the reader    *)
(* returns an array of exactly M elements, the first M payload elements    *)
(* in order.                                                               *)

\* the first-axis length a header declares: <<>> or <<M>>
DeclaredLength(file) ==
    LET at == {k \in 1..EndIndex(file) : file.cards[k].key = "NAXIS1"}
        text == file.cards[FirstIn(at)].text
    IN  IF at = {} THEN <<>>
        ELSE IF text = <<" ", "0">> THEN <<0>>
        ELSE IF text = <<"1">> THEN <<1>>
        ELSE IF text = <<" ", "2", " ", "/", "n">> THEN <<2>>
        ELSE IF text = <<"+", "3">> THEN <<3>>
        ELSE <<>>

\* the payload starts where the records end
PayloadAtBoundary(file) ==
    80 * Len(file.cards) = BlockCeiling(80 * EndIndex(file))

\* the k-th element of the payload: one word, or two for 8-byte elements
PayloadElement(file, k) ==
    IF ElementBytes(file) = 8
    THEN 2 * file.words[2 * k - 1] + file.words[2 * k]
    ELSE file.words[k]

C13_ExactlyDeclaredLength ==
    (/\ Returned
     /\ HasTerminator(stream)
     /\ ~BadValue(stream)
     /\ PayloadAtBoundary(stream)
     /\ DeclaredLength(stream) # <<>>
     /\ BytesAfterHeader(stream) >= DeclaredLength(stream)[1] * ElementBytes(stream))
        => /\ ReturnedArray
           /\ fits_out[1].data =
                  [k \in 1..DeclaredLength(stream)[1] |-> PayloadElement(stream, k)]

-----------------------------------------------------------------------------
(* C14: with h header records read, the END record included, the payload   *)
(* is read from the smallest multiple of 2880 that is at least 80 * h: the *)
(* offset is ceil(80 * h / 2880) * 2880, and the first element returned is *)
(* the one stored at that offset.                                          *)
C14_PayloadOffset ==
    /\ (rpc \in {"data", "returned"} /\ HasTerminator(stream)) =>
           /\ Len(header_cards) = EndIndex(stream)
           /\ total_header_size % 2880 = 0
           /\ total_header_size >= 80 * Len(header_cards)
           /\ total_header_size - 80 * Len(header_cards) < 2880
           /\ total_header_size = BlockCeiling(80 * Len(header_cards))
    /\ ReturnedArray =>
           /\ PayloadAtBoundary(stream)
           /\ total_header_size = 80 * Len(stream.cards)
           /\ fits_out[1].data[1] = PayloadElement(stream, 1)

\* an array returned from a file whose header is one record longer than a
\* block, so that the payload starts at 5760
C14_Witness ==
    /\ ReturnedArray
    /\ Len(header_cards) = 37
    /\ total_header_size = 5760

-----------------------------------------------------------------------------
(* C15: the element type follows the bits-per-element code: -32 gives      *)
(* big-endian 32-bit float, -64 big-endian 64-bit float, 32 big-endian     *)
(* 32-bit integer, and any other code or a header without the record       *)
(* gives big-endian 32-bit float; the reader does not fail on those.       *)

\* the text of the bits-per-element record of a header, <<>> when absent
BitpixText(file) ==
    LET at == {k \in 1..EndIndex(file) : file.cards[k].key = "BITPIX"}
    IN  IF at = {} THEN <<>> ELSE <<file.cards[FirstIn(at)].text>>

ExpectedType(file) ==
    LET t == BitpixText(file)
    IN  IF t \in {<<<<"-", "6", "4", " ", "/", " ", "f">>>>, <<<<"-", "6", "4">>>>}
        THEN ">f8"
        ELSE IF t \in {<<<<" ", "3", "2", " ">>>>, <<<<"3", "2">>>>} THEN ">i4"
        ELSE ">f4"

NoDeclaredLength(file) ==
    \A k \in 1..EndIndex(file) : file.cards[k].key # "NAXIS1"

C15_ElementType ==
    /\ ReturnedArray =>
           /\ fits_out[1].dtype = ExpectedType(stream)
           /\ NoDeclaredLength(stream) =>
                  Len(fits_out[1].data) * (IF ExpectedType(stream) = ">f8" THEN 8 ELSE 4)
                      = 4 * Len(stream.words)
    /\ (/\ Returned
        /\ HasTerminator(stream)
        /\ ~BadValue(stream)
        /\ PayloadAtBoundary(stream)
        /\ NoDeclaredLength(stream)
        /\ stream.tail = 0
        /\ stream.words # <<>>
        /\ ExpectedType(stream) = ">f8" => Len(stream.words) % 2 = 0)
           => ReturnedArray

\* an array read as 32-bit floats under a code outside the table
C15_Witness ==
    /\ ReturnedArray
    /\ BitpixText(stream) = <<<<"1", "6">>>>
    /\ fits_out[1].dtype = ">f4"
    /\ Len(fits_out[1].data) = MaxWords

-----------------------------------------------------------------------------
(* C16: every (sampled start, candidate offset) pair whose correlation is  *)
(* defined and at least min_correlation in magnitude, the bound included,  *)
(* has exactly one record in the list, in scoring order, and the other     *)
(* pairs have none; records with overlapping or coinciding patches are all *)
(* kept, so that the list is as long as the number of passing pairs.       *)

\* the pair's correlation is a number whose magnitude reaches the threshold
PairPasses(e) ==
    /\ e.corr.kind = "value"
    /\ e.corr.den # 0
    /\ LET x == e.corr.num * min_correlation.d * min_correlation.d
           y == min_correlation.n * min_correlation.n * e.corr.den
       IN  \/ min_correlation.n <= 0
           \/ x > y
           \/ x = y /\ e.corr.ulps <= min_correlation.u

PassingUpTo(q) == {p \in 1..q : PairPasses(scored[p])}

C16_OneRecordPerPassingPair ==
    (pc \in {"loop", "done"} /\ Sampled) =>
        /\ Len(matches) = Cardinality(PassingUpTo(Len(scored)))
        /\ \A q \in 1..Len(scored) :
               /\ scored[q].start1 = sample_starts[((q - 1) \div 3) + 1]
               /\ scored[q].k = ((q - 1) % 3) + 1
               /\ PairPasses(scored[q]) =>
                      LET m == matches[Cardinality(PassingUpTo(q))]
                      IN  /\ m.location1 = scored[q].start1
                          /\ m.location2 = scored[q].start2
                          /\ m.separation_pixels = scored[q].separation
                          /\ m.correlation.num = scored[q].corr.num
                          /\ m.correlation.den = scored[q].corr.den
                          /\ m.correlation.sgn = scored[q].corr.sgn
        /\ pc = "done" => Len(scored) = 3 * Len(sample_starts)

\* a finished call at threshold 0.9999999999999999 that kept two records for
\* the same two patches, both with a correlation of magnitude equal to the
\* threshold, and dropped a pair
C16_Witness ==
    /\ pc = "done"
    /\ Sampled
    /\ min_correlation = [n |-> 1, d |-> 1, u |-> 1]
    /\ Len(matches) < Len(scored)
    /\ \E a, b \in 1..Len(matches) :
           /\ a < b
           /\ matches[a].location1 = matches[b].location1
           /\ matches[a].location2 = matches[b].location2
           /\ matches[a].separation_pixels # matches[b].separation_pixels
           /\ matches[a].correlation.num = matches[a].correlation.den
           /\ matches[a].correlation.ulps = min_correlation.u

-----------------------------------------------------------------------------
(* main after the analysis, and analyze_discovery.py: values               *)

TopN == 20            \* matches[:20]

\* |a.correlation| < |b.correlation|, on the squares and the roundings
AbsCorrLess(a, b) ==
    \/ a.correlation.num * b.correlation.den < b.correlation.num * a.correlation.den
    \/ /\ a.correlation.num * b.correlation.den = b.correlation.num * a.correlation.den
       /\ a.correlation.ulps > b.correlation.ulps

\* a.correlation < b.correlation on magnitudes taken with their signs
SignedCorrLess(a, b) ==
    IF a.correlation.sgn # b.correlation.sgn
    THEN a.correlation.sgn < b.correlation.sgn
    ELSE IF a.correlation.sgn >= 0 THEN AbsCorrLess(a, b) ELSE AbsCorrLess(b, a)

\* x put behind every record that is not weaker than it
InsertByAbs(sorted, x) ==
    LET weaker == {k \in 1..Len(sorted) : AbsCorrLess(sorted[k], x)}
        at == IF weaker = {} THEN Len(sorted) + 1 ELSE FirstIn(weaker)
    IN  SubSeq(sorted, 1, at - 1) \o <<x>> \o SubSeq(sorted, at, Len(sorted))

InsertBySigned(sorted, x) ==
    LET weaker == {k \in 1..Len(sorted) : SignedCorrLess(sorted[k], x)}
        at == IF weaker = {} THEN Len(sorted) + 1 ELSE FirstIn(weaker)
    IN  SubSeq(sorted, 1, at - 1) \o <<x>> \o SubSeq(sorted, at, Len(sorted))

\* a ranking by the signed correlation
RECURSIVE SortBySignedCorrelation(_)
SortBySignedCorrelation(list) ==
    IF list = <<>> THEN <<>>
    ELSE InsertBySigned(SortBySignedCorrelation(SubSeq(list, 1, Len(list) - 1)),
                        list[Len(list)])

\* matches.sort(key=lambda x: abs(x['correlation']), reverse=True): stable
RECURSIVE SortByAbsCorrelation(_)
SortByAbsCorrelation(list) ==
    IF list = <<>> THEN <<>>
    ELSE InsertByAbs(SortByAbsCorrelation(SubSeq(list, 1, Len(list) - 1)),
                     list[Len(list)])

\* a report that keeps every match
TopMatchesAll(list) == list

\* matches[:20]
TopMatches(list) == SubSeq(list, 1, Min(TopN, Len(list)))

\* abs(m['correlation']) > 0.2
IsStrong(m) == m.correlation.num * 25 > m.correlation.den

\* mutant of MaxAbsCorrelation: np.max(correlations), without np.abs
MaxSignedCorrelation(list) ==
    LET top == CHOOSE k \in 1..Len(list) :
                   \A m \in 1..Len(list) : ~SignedCorrLess(list[k], list[m])
    IN  [num |-> list[top].correlation.num, den |-> list[top].correlation.den,
         ulps |-> list[top].correlation.ulps]

\* np.max(np.abs(correlations)), as the square in lowest terms
MaxAbsCorrelation(list) ==
    LET top == CHOOSE k \in 1..Len(list) :
                   \A m \in 1..Len(list) : ~AbsCorrLess(list[k], list[m])
    IN  [num |-> list[top].correlation.num, den |-> list[top].correlation.den,
         ulps |-> list[top].correlation.ulps]

\* the results dictionary of main (the float mean_correlation and the file
\* name are not represented)
Report(data, list) ==
    [ analysis_type |-> "real_cmb_echo_detection",
      data_points |-> Len(data),
      matches_found |-> Len(list),
      strong_matches |-> Len(SelectSeq(list, IsStrong)),
      max_correlation |-> MaxAbsCorrelation(list),
      top_matches |-> TopMatches(list) ]

\* json.dump of a dictionary: its members, in insertion order
JsonDump(r) ==
    << <<"analysis_type", r.analysis_type>>, <<"data_points", r.data_points>>,
       <<"matches_found", r.matches_found>>, <<"strong_matches", r.strong_matches>>,
       <<"max_correlation", r.max_correlation>>, <<"top_matches", r.top_matches>> >>

\* json.load: the dictionary of the members, the last of a name winning
JsonLoad(text) ==
    [ name \in {text[k][1] : k \in 1..Len(text)} |->
        LET at == {k \in 1..Len(text) : text[k][1] = name}
            last_at == CHOOSE k \in at : \A m \in at : m <= k
        IN  text[last_at][2] ]

\* a window without its end points
InOpenWindow(s, lo, hi) == lo * s.d < s.n /\ s.n < hi * s.d

\* lo <= s <= hi for an angle s = n/d in degrees
InWindow(s, lo, hi) == lo * s.d <= s.n /\ s.n <= hi * s.d

\* sum(1 for s in separations if lo <= s <= hi)
CountIn(separations, lo, hi) ==
    Cardinality({k \in 1..Len(separations) : InWindow(separations[k], lo, hi)})

\* p-values: n/d, and nan as d = 0
NaN == [n |-> 0, d |-> 0]

PValues ==
    { [n |-> 0, d |-> 1], [n |-> 1, d |-> 10000], [n |-> 1, d |-> 1000],
      [n |-> 1, d |-> 100], [n |-> 1, d |-> 20], [n |-> 1, d |-> 2],
      [n |-> 1, d |-> 1] }

\* p < n/d, False for nan
PLess(p, n, d) == p.d # 0 /\ p.n * d < n * p.d

\* the p-values stats.ttest_1samp(population, 0) can give: nan for fewer
\* than two values and for values all zero, 0 for equal non-zero values,
\* any p-value in [0, 1] otherwise
TTestPValues(population) ==
    IF Len(population) <= 1 THEN {NaN}
    ELSE IF \A a, b \in 1..Len(population) : population[a] = population[b]
    THEN (IF population[1].num = 0 THEN {NaN} ELSE {[n |-> 0, d |-> 1]})
    ELSE PValues

\* np.abs(all_correlations), each value as its square
AbsCorrelations(list) ==
    [k \in 1..Len(list) |->
        [num |-> list[k].correlation.num, den |-> list[k].correlation.den,
         ulps |-> list[k].correlation.ulps]]

\* the branch of statistical_analysis that prints the verdict
PrintedVerdict(p) ==
    IF PLess(p, 1, 1000) THEN "HIGHLY SIGNIFICANT (p < 0.001)"
    ELSE IF PLess(p, 5, 100) THEN "SIGNIFICANT (p < 0.05)"
    ELSE "Not statistically significant"

\* a summary that calls p < 0.01 highly significant
PlotVerdictLoose(p) ==
    IF PLess(p, 1, 100) THEN "HIGHLY SIGNIFICANT"
    ELSE IF PLess(p, 5, 100) THEN "SIGNIFICANT"
    ELSE "NOT SIGNIFICANT"

\* the Result line of the summary text of create_discovery_plots
PlotVerdict(p) ==
    IF PLess(p, 1, 1000) THEN "HIGHLY SIGNIFICANT"
    ELSE IF PLess(p, 5, 100) THEN "SIGNIFICANT"
    ELSE "NOT SIGNIFICANT"

-----------------------------------------------------------------------------
(* main after the analysis, and analyze_discovery.py: inputs               *)

\* correlations the analysis keeps at the threshold 0.1 of main: r = 1,
\* -0.5, 0.2, -0.1, 0.3, -0.9999999999999999
KeptCorrelations ==
    << [sgn |-> 1, num |-> 1, den |-> 1, ulps |-> 0],
       [sgn |-> -1, num |-> 1, den |-> 4, ulps |-> 0],
       [sgn |-> 1, num |-> 1, den |-> 25, ulps |-> 0],
       [sgn |-> -1, num |-> 1, den |-> 100, ulps |-> 0],
       [sgn |-> 1, num |-> 9, den |-> 100, ulps |-> 0],
       [sgn |-> -1, num |-> 1, den |-> 1, ulps |-> 1] >>

\* the list the analysis returns when the first count pairs of an array of
\* length n all pass: pair q is start (q - 1) div 3, offset (q - 1) mod 3,
\* with correlation number a * q + b of the cycle above
ReturnedList(n, p, count, a, b) ==
    [ q \in 1..count |->
        LET start1 == (3 * ((q - 1) \div 3)) % (n - p)
            sep == TestSeparations(n)[((q - 1) % 3) + 1]
        IN  MatchRecord(start1, Start2(start1, sep, n, p),
                        KeptCorrelations[((a * q + b) % Len(KeptCorrelations)) + 1],
                        sep, n, p) ]

ReturnedCounts == {0, 1, 2, 3, TopN, TopN + 1, TopN + 2}

\* array length and patch size of the runs
Runs == { [n |-> 12, p |-> 1], [n |-> 25, p |-> 2] }

\* a record of a results file written by hand or by another program
FileRecord(c, s) ==
    [ location1 |-> 0, location2 |-> 1, correlation |-> c,
      separation_pixels |-> 1, separation_degrees |-> s, patch_size |-> 1 ]

FileAngles ==
    << [n |-> 85, d |-> 1], [n |-> 95, d |-> 1], [n |-> 175, d |-> 1],
       [n |-> 185, d |-> 1], [n |-> 265, d |-> 1], [n |-> 275, d |-> 1],
       [n |-> 849, d |-> 10], [n |-> 951, d |-> 10], [n |-> 0, d |-> 1],
       [n |-> 360, d |-> 1] >>

FileCorrelations ==
    << [sgn |-> 0, num |-> 0, den |-> 1, ulps |-> 0],
       [sgn |-> 1, num |-> 1, den |-> 4, ulps |-> 0],
       [sgn |-> -1, num |-> 1, den |-> 4, ulps |-> 0] >>

\* results files that are there before main runs
ForeignFiles ==
    { JsonDump([ analysis_type |-> "real_cmb_echo_detection",
                 data_points |-> 100, matches_found |-> count,
                 strong_matches |-> 0,
                 max_correlation |-> [num |-> 1, den |-> 4, ulps |-> 0],
                 top_matches |->
                     [q \in 1..count |->
                         FileRecord(FileCorrelations[((a * q) % Len(FileCorrelations)) + 1],
                                    FileAngles[((q + b) % Len(FileAngles)) + 1])] ]) :
          count \in {0, 2, Len(FileAngles)}, a \in {0, 1}, b \in {0, 1} }

-----------------------------------------------------------------------------
(* main after the analysis, and analyze_discovery.py: steps                *)

\* analyze_cmb_correlations has returned to main: the array is represented
\* by its length, matches is the list main holds, last the list as returned
InitReport ==
    /\ ReaderIdle
    /\ \E run \in Runs, count \in ReturnedCounts, a \in {0, 1, 5}, b \in {0, 2, 3} :
           /\ cmb_data = [k \in 1..run.n |-> 0]
           /\ patch_size = run.p
           /\ n_samples = (count + 2) \div 3
           /\ matches = ReturnedList(run.n, run.p, count, a, b)
    /\ min_correlation = DefaultThreshold
    /\ last = << [thr |-> min_correlation, result |-> matches] >>
    /\ rng = 0
    /\ pc = "idle"
    /\ valid_data = <<>>
    /\ sample_starts = <<>>
    /\ i = 1
    /\ j = 1
    /\ scored = <<>>
    /\ mpc = "analysed"
    /\ printed = <<>>
    /\ results_file \in {<<>>} \cup {<<f>> : f \in ForeignFiles}
    /\ results = <<>>
    /\ stats = <<>>
    /\ plot_verdict = ""
    /\ dpc = "idle"
    /\ dprinted = <<>>

\* the lines main prints about strong matches: the evidence line when there
\* is one, and the significance line when one of them is near 90 or 180
EvidenceLines(list) ==
    LET strong_matches == SelectSeq(list, IsStrong)
        separations == [k \in 1..Len(strong_matches) |->
                           strong_matches[k].separation_degrees]
        near_90 == CountIn(separations, 85, 95)
        near_180 == CountIn(separations, 175, 185)
    IN  IF strong_matches = <<>> THEN <<>>
        ELSE <<"POTENTIAL FLAT LOOP UNIVERSE EVIDENCE">> \o
             (IF near_90 > 0 \/ near_180 > 0
              THEN <<"SIGNIFICANT: Found echoes at predicted separations!">>
              ELSE <<>>)

\* mutant of ClosingLines: the last line does not look at the list
ClosingLinesDiscovery(list) ==
    << "Saved plot: real_cmb_analysis.png", "REAL CMB ANALYSIS COMPLETE!",
       "DISCOVERY: Found potential cosmic echoes!" >>

\* plot_cmb_analysis and the closing lines of main
ClosingLines(list) ==
    << "Saved plot: real_cmb_analysis.png", "REAL CMB ANALYSIS COMPLETE!",
       IF list # <<>> THEN "DISCOVERY: Found potential cosmic echoes!"
       ELSE "No strong evidence for cosmic echoes detected" >>

\* if matches: the list is sorted in place
MainRank ==
    /\ mpc = "analysed"
    /\ matches # <<>>
    /\ printed' = Append(printed, "Found potential echo patterns!")
    /\ matches' = SortByAbsCorrelation(matches)
    /\ mpc' = "ranked"
    /\ UNCHANGED <<cmb_data, patch_size, n_samples, min_correlation, rng, pc,
                   valid_data, sample_starts, i, j, scored, last>>
    /\ UNCHANGED <<readerVars, results_file, discoveryVars>>

\* the summary, the results dictionary and json.dump, then the plot and
\* the closing lines
MainSave ==
    /\ mpc = "ranked"
    /\ results_file' = <<JsonDump(Report(cmb_data, matches))>>
    /\ printed' = printed \o EvidenceLines(matches)
                      \o <<"Results saved to: real_cmb_results.json">>
                      \o ClosingLines(matches)
    /\ mpc' = "done"
    /\ UNCHANGED <<engineVars, readerVars, discoveryVars>>

\* else: no file is written; the plot and the closing lines
MainNoMatches ==
    /\ mpc = "analysed"
    /\ matches = <<>>
    /\ printed' = Append(printed, "No significant echo patterns detected")
                      \o ClosingLines(matches)
    /\ mpc' = "done"
    /\ UNCHANGED <<engineVars, readerVars, results_file, discoveryVars>>

\* main of analyze_discovery.py: results = load_results()
LoadResults ==
    /\ dpc = "idle"
    /\ results_file # <<>>
    /\ results' = <<JsonLoad(results_file[1])>>
    /\ dpc' = "loaded"
    /\ UNCHANGED <<engineVars, readerVars, mpc, printed, results_file, stats,
                   plot_verdict, dprinted>>

\* load_results without a results file: open raises FileNotFoundError, which
\* nothing catches
LoadMissing ==
    /\ dpc = "idle"
    /\ results_file = <<>>
    /\ dpc' = "raised"
    /\ UNCHANGED <<engineVars, readerVars, mpc, printed, results_file, results,
                   stats, plot_verdict, dprinted>>

\* stats = statistical_analysis(results); population is the argument of
\* ttest_1samp and verdict the line printed (t_stat is not represented)
StatisticalAnalysis ==
    /\ dpc = "loaded"
    /\ LET top == results[1]["top_matches"]
           separations == [k \in 1..Len(top) |-> top[k].separation_degrees]
           abs_correlations == AbsCorrelations(top)
       IN  \E p \in TTestPValues(abs_correlations) :
               /\ stats' = << [ correlations |-> [k \in 1..Len(top) |-> top[k].correlation],
                                separations |-> separations,
                                sep_90 |-> CountIn(separations, 85, 95),
                                sep_180 |-> CountIn(separations, 175, 185),
                                sep_270 |-> CountIn(separations, 265, 275),
                                p_value |-> p,
                                population |-> abs_correlations,
                                verdict |-> PrintedVerdict(p) ] >>
               /\ dprinted' = Append(dprinted, PrintedVerdict(p))
    /\ dpc' = "analysed"
    /\ UNCHANGED <<engineVars, readerVars, mpc, printed, results_file, results,
                   plot_verdict>>

\* create_discovery_plots(results, stats): the Result line of the summary
CreateDiscoveryPlots ==
    /\ dpc = "analysed"
    /\ plot_verdict' = PlotVerdict(stats[1].p_value)
    /\ dpc' = "plotted"
    /\ UNCHANGED <<engineVars, readerVars, mpc, printed, results_file, results,
                   stats, dprinted>>

\* generate_research_summary(results, stats): the two lines of the summary
\* about significance, which do not depend on p_value
GenerateResearchSummary ==
    /\ dpc = "plotted"
    /\ dprinted' = dprinted \o
           << "indicating these patterns are not due to random chance",
              "Statistical significance: (highly significant)" >>
    /\ dpc' = "summarised"
    /\ UNCHANGED <<engineVars, readerVars, mpc, printed, results_file, results,
                   stats, plot_verdict>>

\* the closing lines of main of analyze_discovery.py
DiscoveryClose ==
    /\ dpc = "summarised"
    /\ dprinted' = dprinted \o
           << "DISCOVERY ANALYSIS COMPLETE!",
              IF PLess(stats[1].p_value, 1, 1000)
              THEN "CONGRATULATIONS! You have discovered statistically significant evidence"
              ELSE "Results show interesting patterns that warrant further investigation" >>
    /\ dpc' = "done"
    /\ UNCHANGED <<engineVars, readerVars, mpc, printed, results_file, results,
                   stats, plot_verdict>>

NextReport ==
    \/ MainRank
    \/ MainSave
    \/ MainNoMatches
    \/ LoadResults
    \/ LoadMissing
    \/ StatisticalAnalysis
    \/ CreateDiscoveryPlots
    \/ GenerateResearchSummary
    \/ DiscoveryClose

SpecReport == InitReport /\ [][NextReport]_vars

-----------------------------------------------------------------------------
(* main from the read to its last line                                     *)

MainPatchSize == 2000   \* patch_size=2000
MainSamples == 3000     \* n_samples=3000

\* the list a call of analyze_cmb_correlations returns: the records of the
\* scored pairs that pass, in scoring order
AnalyzeCmbCorrelations(data, p, k, t) ==
    LET valid == ValidData(data)
        n == Len(valid)
    IN  IF Insufficient(n, p) THEN <<>>
        ELSE LET starts == SampleStarts(n, p, k, Seed(SeedValue)).starts
                 per == Len(TestSeparations(n))
                 Pair(q) ==
                     LET start1 == starts[((q - 1) \div per) + 1]
                         sep == TestSeparations(n)[((q - 1) % per) + 1]
                         start2 == Start2(start1, sep, n, p)
                         c == CorrCoef(Patch(valid, start1, p),
                                       Patch(valid, start2, p))
                     IN  [c |-> c,
                          rec |-> MatchRecord(start1, start2, c, sep, n, p)]
                 Kept(e) == Passes(e.c, t)
                 kept == SelectSeq([q \in 1..(per * Len(starts)) |-> Pair(q)],
                                   Kept)
             IN  [q \in 1..Len(kept) |-> kept[q].rec]

\* matches = analyze_cmb_correlations(cmb_data, patch_size=2000,
\* n_samples=3000, min_correlation=0.1)
MainAnalyse ==
    /\ mpc = "analysis"
    /\ patch_size' = MainPatchSize
    /\ n_samples' = MainSamples
    /\ min_correlation' = DefaultThreshold
    /\ matches' = AnalyzeCmbCorrelations(cmb_data, MainPatchSize, MainSamples,
                                         DefaultThreshold)
    /\ rng' = IF Insufficient(Len(ValidData(cmb_data)), MainPatchSize) THEN rng
              ELSE SampleStarts(Len(ValidData(cmb_data)), MainPatchSize,
                                MainSamples, Seed(SeedValue)).rng
    /\ last' = << [thr |-> DefaultThreshold, result |-> matches'] >>
    /\ mpc' = "analysed"
    /\ UNCHANGED <<cmb_data, pc, valid_data, sample_starts, i, j, scored>>
    /\ UNCHANGED <<readerVars, printed, results_file, discoveryVars>>

NextFits ==
    \/ MainReadFits
    \/ ReadCard
    \/ ReadExhausted
    \/ ParseHeader
    \/ ReadData
    \/ MainReadFailed
    \/ MainReadOk
    \/ MainAnalyse
    \/ MainNoMatches

SpecFits == InitFits /\ [][NextFits]_vars

-----------------------------------------------------------------------------
(* Vocabulary of the report properties                                     *)

\* the square of |correlation| of a is at least that of b
AtLeastAsStrong(a, b) ==
    LET x == a.correlation.num * b.correlation.den
        y == b.correlation.num * a.correlation.den
    IN  x > y \/ (x = y /\ a.correlation.ulps <= b.correlation.ulps)

Occurrences(list, x) == Cardinality({k \in 1..Len(list) : list[k] = x})

\* the list as the analysis returned it to main
ReturnedMatches == last[1].result

\* main has written its report
ReportWritten == mpc = "done" /\ matches # <<>>

WrittenReport == JsonLoad(results_file[1])

-----------------------------------------------------------------------------
(* C17: after the ranking in main the whole match list, a rearrangement of *)
(* the n records returned, is in order of non-increasing |correlation|;    *)
(* top_matches of the report is its prefix of length min(20, n), so no     *)
(* record left out is stronger than a record in it; matches_found is n.    *)
C17_RankedReport ==
    /\ mpc \in {"ranked", "done"} =>
           /\ \A a, b \in 1..Len(matches) :
                  a < b => AtLeastAsStrong(matches[a], matches[b])
           /\ Len(matches) = Len(ReturnedMatches)
           /\ \A k \in 1..Len(matches) :
                  Occurrences(matches, matches[k])
                      = Occurrences(ReturnedMatches, matches[k])
    /\ ReportWritten =>
           LET n == Len(ReturnedMatches)
               top == WrittenReport["top_matches"]
           IN  /\ Len(top) = IF n < 20 THEN n ELSE 20
               /\ \A k \in 1..Len(top) : top[k] = matches[k]
               /\ \A k \in 1..Len(top), m \in (Len(top) + 1)..n :
                      AtLeastAsStrong(top[k], matches[m])
               /\ WrittenReport["matches_found"] = n

\* a report of 22 matches returned in another order than the ranked one,
\* two of them left out of top_matches
C17_Witness ==
    /\ ReportWritten
    /\ Len(ReturnedMatches) = 22
    /\ matches # ReturnedMatches
    /\ Len(WrittenReport["top_matches"]) = 20
    /\ WrittenReport["matches_found"] = 22
    /\ ~AtLeastAsStrong(matches[22], matches[1])

-----------------------------------------------------------------------------
(* C18: the population the one-sample t-test of statistical_analysis is    *)
(* given is the |correlation| of each record of top_matches of the report  *)
(* it was handed, in order and nothing else; for a report of main those    *)
(* are the min(20, n) strongest of the n matches, and the magnitude of no  *)
(* record ranked below them is in it.                                      *)
C18_TestPopulation ==
    stats # <<>> =>
        LET top == results[1]["top_matches"]
            population == stats[1].population
        IN  /\ Len(population) = Len(top)
            /\ \A k \in 1..Len(top) :
                   /\ population[k].num = top[k].correlation.num
                   /\ population[k].den = top[k].correlation.den
                   /\ population[k].ulps = top[k].correlation.ulps
            /\ (ReportWritten /\ results = <<WrittenReport>>) =>
                   /\ Len(population) = IF Len(matches) < 20 THEN Len(matches) ELSE 20
                   /\ \A k \in 1..Len(population) :
                          /\ population[k].num = matches[k].correlation.num
                          /\ population[k].den = matches[k].correlation.den
                          /\ population[k].ulps = matches[k].correlation.ulps

\* the test has run on the report main wrote for 22 matches, and its
\* population is the 20 values that the two weakest matches are not among
C18_Witness ==
    /\ stats # <<>>
    /\ ReportWritten
    /\ results = <<WrittenReport>>
    /\ Len(matches) = 22
    /\ Len(stats[1].population) = 20
    /\ stats[1].population[1].num * matches[22].correlation.den
           > matches[22].correlation.num * stats[1].population[1].den

-----------------------------------------------------------------------------
(* C19: statistical_analysis reports three counts, of the matches examined *)
(* whose angular separation s has 85 <= s <= 95, 175 <= s <= 185 and       *)
(* 265 <= s <= 275, end points included; no match is counted in two bins   *)
(* and the counts sum to at most the number of matches examined.           *)

\* the matches examined whose separation is within 5 degrees of c
Near(c) ==
    {k \in 1..Len(results[1]["top_matches"]) :
        LET s == results[1]["top_matches"][k].separation_degrees
        IN  /\ s.n >= (c - 5) * s.d
            /\ s.n <= (c + 5) * s.d}

C19_BinCounts ==
    stats # <<>> =>
        /\ stats[1].sep_90 = Cardinality(Near(90))
        /\ stats[1].sep_180 = Cardinality(Near(180))
        /\ stats[1].sep_270 = Cardinality(Near(270))
        /\ Near(90) \cap Near(180) = {}
        /\ Near(90) \cap Near(270) = {}
        /\ Near(180) \cap Near(270) = {}
        /\ stats[1].sep_90 + stats[1].sep_180 + stats[1].sep_270
               <= Len(results[1]["top_matches"])

\* ten matches examined, at 85, 95, 175, 185, 265 and 275 degrees and at
\* four angles outside the windows: two are counted in each bin
C19_Witness ==
    /\ stats # <<>>
    /\ Len(results[1]["top_matches"]) = 10
    /\ \E k \in Near(90) : results[1]["top_matches"][k].separation_degrees = [n |-> 85, d |-> 1]
    /\ \E k \in Near(270) : results[1]["top_matches"][k].separation_degrees = [n |-> 275, d |-> 1]
    /\ stats[1].sep_90 = 2
    /\ stats[1].sep_180 = 2
    /\ stats[1].sep_270 = 2

-----------------------------------------------------------------------------
(* C20: every p_value gets one verdict: highly significant when p < 0.001, *)
(* significant when 0.001 <= p < 0.05, not significant otherwise, an       *)
(* undefined p_value included; the verdict statistical_analysis prints and *)
(* the one in the plot summary of create_discovery_plots are the same.     *)

Defined(p) == p.d # 0

ExpectedVerdict(p) ==
    IF Defined(p) /\ 1000 * p.n < p.d THEN "highly significant"
    ELSE IF Defined(p) /\ 1000 * p.n >= p.d /\ 100 * p.n < 5 * p.d
    THEN "significant"
    ELSE "not significant"

\* the verdict a line of output states
VerdictOf(line) ==
    CASE line \in {"HIGHLY SIGNIFICANT (p < 0.001)", "HIGHLY SIGNIFICANT"}
             -> "highly significant"
      [] line \in {"SIGNIFICANT (p < 0.05)", "SIGNIFICANT"} -> "significant"
      [] line \in {"Not statistically significant", "NOT SIGNIFICANT"}
             -> "not significant"
      [] OTHER -> "none"

C20_VerdictBands ==
    /\ stats # <<>> =>
           VerdictOf(stats[1].verdict) = ExpectedVerdict(stats[1].p_value)
    /\ plot_verdict # "" =>
           /\ VerdictOf(plot_verdict) = ExpectedVerdict(stats[1].p_value)
           /\ VerdictOf(plot_verdict) = VerdictOf(stats[1].verdict)

\* both lines written for a p_value of exactly 0.001
C20_Witness ==
    /\ stats # <<>>
    /\ stats[1].p_value = [n |-> 1, d |-> 1000]
    /\ stats[1].verdict = "SIGNIFICANT (p < 0.05)"
    /\ plot_verdict = "SIGNIFICANT"

-----------------------------------------------------------------------------
(* C25, as claimed: every match record's separation_pixels is the distance *)
(* (location2 - location1) mod N between its two patch starts, and its     *)
(* separation_degrees is 360 * separation_pixels / N, also when the second *)
(* start was wrapped or clamped at the end of the array.  Violated: a      *)
(* clamped start2 = N - P is not at the recorded offset from location1.    *)
C25_RecordedDistance ==
    \A q \in DOMAIN matches :
        LET m == matches[q]
        IN  /\ m.separation_pixels = (m.location2 - m.location1 + N) % N
            /\ m.separation_degrees = Ratio(360 * m.separation_pixels, N)

-----------------------------------------------------------------------------
(* C27: the loop scores exactly 3 pairs per sampled start, one per         *)
(* candidate offset, 3 * S in all for S sampled starts with S <= K; the    *)
(* list never holds more than 3 * K records nor more than 3 records with   *)
(* the same location1.                                                     *)

\* the records of the list that start at s
RecordsAt(s) == {q \in DOMAIN matches : matches[q].location1 = s}

C27_ThreePerStart ==
    Sampled =>
        /\ Len(sample_starts) <= K
        /\ Len(scored) = 3 * (i - 1) + (j - 1)
        /\ pc = "done" => Len(scored) = 3 * Len(sample_starts)
        /\ \A q \in DOMAIN scored :
               /\ scored[q].start1 = sample_starts[((q - 1) \div 3) + 1]
               /\ scored[q].separation = TestSeparations(N)[((q - 1) % 3) + 1]
        /\ Len(matches) <= Len(scored)
        /\ Len(matches) <= 3 * K
        /\ \A s \in 0..N : Cardinality(RecordsAt(s)) <= 3

\* a finished call with the largest K whose list holds 3 * K records, three
\* for each of its starts
C27_Witness ==
    /\ pc = "done"
    /\ Sampled
    /\ K = MaxSamples
    /\ Len(matches) = 3 * K
    /\ \A q \in DOMAIN sample_starts :
           Cardinality(RecordsAt(sample_starts[q])) = 3

-----------------------------------------------------------------------------
(* C28, as claimed: when N >= 2P and P >= 1, the two patches of every      *)
(* match record share no index: the windows [location1, location1 + P) and *)
(* [location2, location2 + P) are disjoint, also when the second start was *)
(* wrapped or clamped.  Violated: floor(N/4) < P and the clamp to N - P    *)
(* both put the second window on the first.                                *)

Window(start, p) == start..(start + p - 1)

C28_DisjointPatches ==
    (N >= 2 * P /\ P >= 1) =>
        \A q \in DOMAIN matches :
            Window(matches[q].location1, P)
                \cap Window(matches[q].location2, P) = {}

-----------------------------------------------------------------------------
(* Calls on arrays long enough to hold a patch and its copy a quarter of   *)
(* the array further on.                                                   *)

EchoLen == MaxLen + 2

EchoArrays == { a \in SeqsUpTo(Values, EchoLen) : Len(a) = EchoLen }

InitEcho ==
    /\ ReaderIdle
    /\ ReportIdle
    /\ cmb_data \in EchoArrays
    /\ patch_size \in 1..MaxPatch
    /\ n_samples \in 0..MaxSamples
    /\ min_correlation = DefaultThreshold
    /\ rng = 0
    /\ pc = "idle"
    /\ valid_data = <<>>
    /\ sample_starts = <<>>
    /\ i = 1
    /\ j = 1
    /\ scored = <<>>
    /\ matches = <<>>
    /\ last = <<>>

NextEcho ==
    \/ CallSample
    \/ Score
    \/ Return

SpecEcho == InitEcho /\ [][NextEcho]_vars

\* the scored pair q is a sampled start with the quarter offset, whose patch
\* is not constant and is repeated, inside the array, a quarter further on
EchoPair(q) ==
    /\ scored[q].k = 1
    /\ scored[q].start1 + (N \div 4) + P <= N
    /\ ~IsConstant(scored[q].patch1)
    /\ scored[q].patch1 = Patch(valid_data, scored[q].start1 + (N \div 4), P)

\* a record of the pair q in the list
EchoRecords(q) ==
    { a \in DOMAIN matches :
        /\ matches[a].location1 = scored[q].start1
        /\ matches[a].location2 = scored[q].start1 + (N \div 4)
        /\ matches[a].separation_pixels = N \div 4 }

One == [n |-> 1, d |-> 1, u |-> 0]

(* C24, as claimed: a sampled start whose non-constant patch is repeated   *)
(* floor(N/4) further on has, at every threshold up to 1, a record with    *)
(* location2 = location1 + floor(N/4) and correlation 1, at 90 degrees     *)
(* when 4 divides N.  Violated: the computed correlation of two identical  *)
(* patches of two or three samples is below 1.                             *)
C24_IdenticalPatchesMatch ==
    Sampled =>
        \A q \in DOMAIN scored :
            EchoPair(q) =>
                \E a \in EchoRecords(q) :
                    /\ matches[a].correlation =
                           [sgn |-> 1, num |-> 1, den |-> 1, ulps |-> 0]
                    /\ N % 4 = 0 =>
                           matches[a].separation_degrees = [n |-> 90, d |-> 1]

(* C24, amended: the correlation of the two identical patches is 1 up to   *)
(* rounding, at most two units in the last place below 1 and not 1 itself  *)
(* for patches of two or three samples; the record, with location2 =       *)
(* location1 + floor(N/4) and 90 degrees when 4 divides N, is in the list  *)
(* at every threshold below 1 less two units in the last place (0.1 in     *)
(* particular) and at no threshold above the computed correlation.         *)
C24_IdenticalPatchesMatchRounded ==
    Sampled =>
        \A q \in DOMAIN scored :
            EchoPair(q) =>
                /\ scored[q].corr.kind = "value"
                /\ scored[q].corr.sgn = 1
                /\ scored[q].corr.num = scored[q].corr.den
                /\ scored[q].corr.ulps <= 2
                /\ P \in {2, 3} => scored[q].corr.ulps >= 1
                /\ \A a \in EchoRecords(q) :
                       /\ matches[a].correlation.sgn = 1
                       /\ matches[a].correlation.num = 1
                       /\ matches[a].correlation.den = 1
                       /\ matches[a].correlation.ulps = scored[q].corr.ulps
                       /\ N % 4 = 0 =>
                              matches[a].separation_degrees =
                                  [n |-> 90, d |-> 1]
                /\ ThrLess(min_correlation, One) /\ min_correlation.u = 0 =>
                       EchoRecords(q) # {}
                /\ scored[q].corr.ulps > min_correlation.u
                       /\ min_correlation.n = min_correlation.d =>
                       EchoRecords(q) = {}

\* a finished call at threshold 0.1 on an array of a multiple of 4 samples
\* that kept the record of an echo pair at 90 degrees with a correlation one
\* unit in the last place below 1
C24_Witness ==
    /\ pc = "done"
    /\ Sampled
    /\ N % 4 = 0
    /\ min_correlation = DefaultThreshold
    /\ \E q \in DOMAIN scored :
           /\ EchoPair(q)
           /\ \E a \in EchoRecords(q) :
                  /\ matches[a].correlation.ulps = 1
                  /\ matches[a].separation_degrees = [n |-> 90, d |-> 1]

-----------------------------------------------------------------------------
(* C23: a run of main that read the file and found no match is told apart  *)
(* from a run whose read failed.  The failed read stops main before the    *)
(* analysis, with the read-failure line as its only result line; the empty *)
(* result comes from an analysis that ran, goes through the result, the    *)
(* plot and the completion lines, and is reported as no echo patterns,     *)
(* without the read-failure line.                                          *)

ReadFailureLines == << "Failed to read CMB data" >>

NoEchoLines ==
    << "No significant echo patterns detected",
       "Saved plot: real_cmb_analysis.png", "REAL CMB ANALYSIS COMPLETE!",
       "No strong evidence for cosmic echoes detected" >>

\* main has ended
MainEnded == mpc \in {"returned", "done"}

C23_EmptyResultNotFailure ==
    /\ mpc \in {"analysis", "analysed", "done"} => ReturnedArray
    /\ mpc = "returned" =>
           /\ ReturnedNone
           /\ last = <<>>
           /\ printed = ReadFailureLines
    /\ (mpc = "done" /\ matches = <<>>) =>
           /\ last = << [thr |-> DefaultThreshold, result |-> <<>>] >>
           /\ cmb_data = fits_out[1].data
           /\ printed = NoEchoLines
    /\ MainEnded => (printed = ReadFailureLines) # (printed = NoEchoLines)
    /\ ~MainEnded => printed = <<>>

\* main has ended on a file that was read whole, without a match
C23_Witness ==
    /\ mpc = "done"
    /\ ReturnedArray
    /\ Len(cmb_data) = MaxWords
    /\ matches = <<>>
    /\ printed = NoEchoLines

-----------------------------------------------------------------------------
(* C21, as claimed: when the analysis kept no match or one match, the      *)
(* significance stage run after main does not raise: its p_value is        *)
(* undefined and its verdict is the not significant one.  Violated: with   *)
(* no match main writes no results file, and load_results raises on the    *)
(* missing file or reads a file left by an earlier run.                    *)

C21_SmallRunsComplete ==
    (mpc = "done" /\ Len(ReturnedMatches) <= 1) =>
        /\ dpc # "raised"
        /\ stats # <<>> =>
               /\ stats[1].p_value = NaN
               /\ stats[1].verdict = "Not statistically significant"

-----------------------------------------------------------------------------
(* C22, as claimed: every line the two programs print in discovery or      *)
(* significant wording follows from the p_value thresholds alone: main of  *)
(* analyze_real_cmb.py, which computes no p_value, prints none, and        *)
(* analyze_discovery.py prints one only when its p_value is below the      *)
(* threshold the line names.  Violated: main prints such lines from the    *)
(* match count and the bin counts, and the research summary prints         *)
(* (highly significant) whatever the p_value.                              *)

\* lines of main of analyze_real_cmb.py in discovery or significant wording
MainVerdictLines ==
    { "SIGNIFICANT: Found echoes at predicted separations!",
      "DISCOVERY: Found potential cosmic echoes!" }

\* p_value bound under which a line of analyze_discovery.py may be printed
VerdictBound(line) ==
    IF line = "SIGNIFICANT (p < 0.05)" THEN [n |-> 5, d |-> 100]
    ELSE [n |-> 1, d |-> 1000]

DiscoveryVerdictLines ==
    { "HIGHLY SIGNIFICANT (p < 0.001)", "SIGNIFICANT (p < 0.05)",
      "indicating these patterns are not due to random chance",
      "Statistical significance: (highly significant)",
      "CONGRATULATIONS! You have discovered statistically significant evidence" }

C22_VerdictsFromPValue ==
    /\ Range(printed) \cap MainVerdictLines = {}
    /\ \A line \in Range(dprinted) \cap DiscoveryVerdictLines :
           /\ stats # <<>>
           /\ PLess(stats[1].p_value, VerdictBound(line).n, VerdictBound(line).d)

-----------------------------------------------------------------------------
(* C26, as claimed: the t-test of statistical_analysis run on the report   *)
(* of main is given the |correlation| of every match the analysis kept,    *)
(* not only of the records of top_matches.  Violated for more than 20      *)
(* matches: the report carries the 20 strongest and the test sees no       *)
(* other.                                                                  *)
C26_FullPopulation ==
    (stats # <<>> /\ ReportWritten /\ results = <<WrittenReport>>) =>
        /\ Len(stats[1].population) = Len(ReturnedMatches)
        /\ stats[1].population = AbsCorrelations(matches)

-----------------------------------------------------------------------------
(* C29: in every report main writes, max_correlation is |correlation| of   *)
(* the first record of top_matches and is at least min_correlation,        *)
(* strong_matches counts the records with |correlation| > 0.2 and is at    *)
(* most matches_found, and matches_found is at least 1: no report is       *)
(* written for an empty list.                                              *)

\* the file is there and was not there before main ran
FileOfMain == results_file # <<>> /\ results_file[1] \notin ForeignFiles

C29_ReportFields ==
    /\ FileOfMain => ReportWritten
    /\ (mpc = "done" /\ matches = <<>>) => ~FileOfMain
    /\ ReportWritten =>
           LET r == WrittenReport
               first == r["top_matches"][1].correlation
           IN  /\ r["matches_found"] >= 1
               /\ r["matches_found"] = Len(ReturnedMatches)
               /\ r["max_correlation"] =
                      [num |-> first.num, den |-> first.den, ulps |-> first.ulps]
               /\ AbsGE(r["max_correlation"], min_correlation)
               /\ r["strong_matches"] =
                      Cardinality({k \in 1..Len(matches) : IsStrong(matches[k])})
               /\ r["strong_matches"] <= r["matches_found"]

\* a report of several matches, some strong and some not, whose strongest
\* record has a negative correlation
C29_Witness ==
    /\ ReportWritten
    /\ WrittenReport["matches_found"] > 1
    /\ WrittenReport["strong_matches"] > 0
    /\ WrittenReport["strong_matches"] < WrittenReport["matches_found"]
    /\ WrittenReport["top_matches"][1].correlation.sgn = -1

-----------------------------------------------------------------------------
(* main and analyze_discovery.py on arrays of 54 and more valid samples    *)

MinWindowLen == 54    \* shortest array of the runs below

AngleLens == MinWindowLen..(MinWindowLen + MaxLen + 1)

InitAngles ==
    /\ ReaderIdle
    /\ \E n \in AngleLens, count \in {0, 1, 3, TopN + 2} :
           /\ cmb_data = [k \in 1..n |-> 0]
           /\ patch_size = 2
           /\ n_samples = (count + 2) \div 3
           /\ matches = ReturnedList(n, 2, count, 1, 0)
    /\ min_correlation = DefaultThreshold
    /\ last = << [thr |-> min_correlation, result |-> matches] >>
    /\ rng = 0
    /\ pc = "idle"
    /\ valid_data = <<>>
    /\ sample_starts = <<>>
    /\ i = 1
    /\ j = 1
    /\ scored = <<>>
    /\ mpc = "analysed"
    /\ printed = <<>>
    /\ results_file = <<>>
    /\ results = <<>>
    /\ stats = <<>>
    /\ plot_verdict = ""
    /\ dpc = "idle"
    /\ dprinted = <<>>

SpecAngles == InitAngles /\ [][NextReport]_vars

\* the windows of statistical_analysis, in the order of the offsets
Windows == << [lo |-> 85, hi |-> 95], [lo |-> 175, hi |-> 185],
              [lo |-> 265, hi |-> 275] >>

\* the windows the angle s lies in
WindowsOf(s) == {w \in 1..3 : InWindow(s, Windows[w].lo, Windows[w].hi)}

(* C30: for an array of N >= 54 valid samples the k-th candidate offset,   *)
(* floor(k*N/4), is at an angle inside the k-th window ([85, 95],          *)
(* [175, 185], [265, 275] degrees); every record of the list and of the    *)
(* report lies in exactly one window, and the three bin counts of          *)
(* statistical_analysis add up to the number of top_matches.               *)
C30_OffsetsInWindows ==
    LET n == Len(cmb_data)
    IN  /\ n >= 54
        /\ \A k \in 1..3 :
               WindowsOf(Ratio(360 * TestSeparations(n)[k], n)) = {k}
        /\ \A q \in DOMAIN matches :
               Cardinality(WindowsOf(matches[q].separation_degrees)) = 1
        /\ (stats # <<>> /\ results = <<WrittenReport>>) =>
               /\ \A q \in DOMAIN results[1]["top_matches"] :
                      Cardinality(WindowsOf(
                          results[1]["top_matches"][q].separation_degrees)) = 1
               /\ stats[1].sep_90 + stats[1].sep_180 + stats[1].sep_270
                      = Len(results[1]["top_matches"])

\* the bins of a report of 20 records on an array whose length is 1 more
\* than a multiple of 4: each is filled and none of the angles is 90, 180 or
\* 270 degrees
C30_Witness ==
    /\ stats # <<>>
    /\ results = <<WrittenReport>>
    /\ Len(cmb_data) % 4 = 1
    /\ stats[1].sep_90 > 0 /\ stats[1].sep_180 > 0 /\ stats[1].sep_270 > 0
    /\ stats[1].sep_90 + stats[1].sep_180 + stats[1].sep_270 = TopN
    /\ \A q \in DOMAIN stats[1].separations :
           stats[1].separations[q].d # 1

=============================================================================
